---- MODULE Spec2Model ----
(***************************************************************************)
(* DBSCAN of clust-rs (src/src/dbscan.rs): Dbscan::new (fit) and           *)
(* Dbscan::predict over a single-column point matrix with integer          *)
(* coordinates.  Rows are numbered 1..Len(data) here (0..rows-1 in the     *)
(* code); cluster ids start at 0 as in the code.  Option<usize> is an      *)
(* integer: None is -1 and Some(c) is c.                                    *)
(***************************************************************************)
EXTENDS Integers, Sequences, FiniteSets, TLC

\* ---------------------------------------------------------------- bounds
MaxRows == 4        \* rows of a training matrix of Spec
MaxCoord == 2       \* coordinates are 0..MaxCoord in Spec
MaxEps == 1         \* eps is -1..MaxEps in Spec
MaxMinPoints == 3   \* min_points is 0..MaxMinPoints in Spec
ChainRows == 7      \* rows of a training matrix of SpecChain
MaxGap == 3         \* gap between consecutive rows of SpecChain
ChainMinPoints == 4 \* largest min_points of SpecChain
ChainEps == 3       \* largest eps of SpecChain
UsizeBits == 16     \* width of usize (a 16-bit target)

None == -1
Some(c) == c

\* ------------------------------------------------------------- helpers
\* The elements of a sequence.
Range(s) == {s[i] : i \in 1..Len(s)}

\* Ascending sequence of a finite set of integers.
RECURSIVE SortedSeq(_)
SortedSeq(S) ==
    IF S = {} THEN <<>>
    ELSE LET m == CHOOSE x \in S : \A y \in S : x <= y
         IN <<m>> \o SortedSeq(S \ {m})

\* neighbours.sort_unstable_by(..); neighbours.dedup();
SortDedup(neighbours) == SortedSeq(Range(neighbours))

\* kdtree::distance::squared_euclidean on one-column rows.
squared_euclidean(a, b) == (a - b) * (a - b)

\* kdtree_init: every row is added to the index under its row number.
kdtree_init(data) == [idx \in 1..Len(data) |-> data[idx]]

\* Row numbers of a set in ascending distance to row (ties by row number).
RECURSIVE ByDistance(_, _, _)
ByDistance(kdt, row, S) ==
    IF S = {} THEN <<>>
    ELSE LET m == CHOOSE x \in S : \A y \in S :
                     \/ squared_euclidean(kdt[x], row) < squared_euclidean(kdt[y], row)
                     \/ /\ squared_euclidean(kdt[x], row) = squared_euclidean(kdt[y], row)
                        /\ x <= y
         IN <<m>> \o ByDistance(kdt, row, S \ {m})

\* Mutant of within: < radius in place of <= radius.
within_strict(kdt, row, radius, order) ==
    LET S == {i \in DOMAIN kdt : squared_euclidean(kdt[i], row) < radius}
    IN IF order = "kdtree" THEN ByDistance(kdt, row, S) ELSE SortedSeq(S)

\* kdt.within(row, radius, &squared_euclidean): the indexed rows whose squared
\* distance to row is at most radius.  The k-d tree returns them by ascending
\* distance ("kdtree"); a linear scan returns them in row order ("scan").
within(kdt, row, radius, order) ==
    LET S == {i \in DOMAIN kdt : squared_euclidean(kdt[i], row) <= radius}
    IN IF order = "kdtree" THEN ByDistance(kdt, row, S) ELSE SortedSeq(S)

\* region_query: pushes the rows within eps (queried as eps.powi(2)) onto neighbours.
region_query(row, eps, kdt, order, neighbours) ==
    neighbours \o within(kdt, row, eps * eps, order)

\* ------------------------------------------------------------ Dbscan::new
\* Mutant of seedable: the for loop does not check visited.
seedable_always(visited, row_idx) == TRUE

\* if !visited[row_idx]: the for loop starts from a row not yet visited.
seedable(visited, row_idx) == ~visited[row_idx]

\* if !visited[neighbour_idx]: a popped row is queried once.
expandable(visited, neighbour_idx) == ~visited[neighbour_idx]

\* Mutant of dense: == in place of >=.
dense_exact(neighbours, min_points) == Len(neighbours) = min_points

\* neighbours.len() >= min_points, sub_neighbours.len() >= min_points
dense(neighbours, min_points) == Len(neighbours) >= min_points

\* if borders { clusters[neighbour_idx] = Some(c); }
label_popped(clusters, neighbour_idx, c, borders) ==
    IF borders THEN [clusters EXCEPT ![neighbour_idx] = Some(c)] ELSE clusters

\* Mutant of label_core: the test on borders inverted.
label_core_inverted(clusters, neighbour_idx, c, borders) ==
    IF borders THEN [clusters EXCEPT ![neighbour_idx] = Some(c)] ELSE clusters

\* if !borders { clusters[neighbour_idx] = Some(c); }
label_core(clusters, neighbour_idx, c, borders) ==
    IF ~borders THEN [clusters EXCEPT ![neighbour_idx] = Some(c)] ELSE clusters

\* Mutant of merge: the pending rows are replaced, not extended.
merge_replaces(neighbours, sub_neighbours) == SortDedup(sub_neighbours)

\* neighbours.extend_from_slice(&sub_neighbours); sort_unstable_by; dedup
merge(neighbours, sub_neighbours) == SortDedup(neighbours \o sub_neighbours)

\* Mutant of sparse_row: c += 1 runs for a row that is not dense too.
sparse_row_counts(st, visited) == [st EXCEPT !.visited = visited, !.c = st.c + 1]

\* A row of the for loop with fewer than min_points neighbours: it is marked
\* visited and nothing else changes.
sparse_row(st, visited) == [st EXCEPT !.visited = visited]

\* The while-let loop of one cluster's growth; st is [neighbours, visited, clusters].
RECURSIVE Expand(_, _, _, _, _, _, _)
Expand(st, data, eps, min_points, borders, kdt_order, c) ==
    IF st.neighbours = <<>> THEN st
    ELSE
      LET n == Len(st.neighbours)
          neighbour_idx == st.neighbours[n]
          popped == SubSeq(st.neighbours, 1, n - 1)
          cl1 == label_popped(st.clusters, neighbour_idx, c, borders)
      IN IF expandable(st.visited, neighbour_idx)
         THEN LET vis == [st.visited EXCEPT ![neighbour_idx] = TRUE]
                  sub_neighbours == region_query(data[neighbour_idx], eps,
                                                 kdtree_init(data), kdt_order, <<>>)
              IN IF dense(sub_neighbours, min_points)
                 THEN Expand([neighbours |-> merge(popped, sub_neighbours),
                              visited |-> vis,
                              clusters |-> label_core(cl1, neighbour_idx, c, borders)],
                             data, eps, min_points, borders, kdt_order, c)
                 ELSE Expand([neighbours |-> popped, visited |-> vis, clusters |-> cl1],
                             data, eps, min_points, borders, kdt_order, c)
         ELSE Expand([neighbours |-> popped, visited |-> st.visited, clusters |-> cl1],
                     data, eps, min_points, borders, kdt_order, c)

\* The for loop over rows; st is [c, visited, clusters, seeds], where seeds
\* records the row that started each cluster (seeds[c + 1] started cluster c).
RECURSIVE FitRows(_, _, _, _, _, _, _)
FitRows(row_idx, st, data, eps, min_points, borders, kdt_order) ==
    IF row_idx > Len(data) THEN st
    ELSE IF ~seedable(st.visited, row_idx)
    THEN FitRows(row_idx + 1, st, data, eps, min_points, borders, kdt_order)
    ELSE
      LET vis == [st.visited EXCEPT ![row_idx] = TRUE]
          neighbours == SortDedup(region_query(data[row_idx], eps, kdtree_init(data),
                                               kdt_order, <<>>))
      IN IF dense(neighbours, min_points)
         THEN LET grown == Expand([neighbours |-> neighbours, visited |-> vis,
                                   clusters |-> [st.clusters EXCEPT ![row_idx] = Some(st.c)]],
                                  data, eps, min_points, borders, kdt_order, st.c)
              IN FitRows(row_idx + 1,
                         [c |-> st.c + 1, visited |-> grown.visited,
                          clusters |-> grown.clusters,
                          seeds |-> Append(st.seeds, row_idx)],
                         data, eps, min_points, borders, kdt_order)
         ELSE FitRows(row_idx + 1, sparse_row(st, vis),
                      data, eps, min_points, borders, kdt_order)

\* Dbscan::new: the final state of the fit.
Fit(data, eps, min_points, borders, kdt_order) ==
    FitRows(1, [c |-> 0,
                visited |-> [i \in 1..Len(data) |-> FALSE],
                clusters |-> [i \in 1..Len(data) |-> None],
                seeds |-> <<>>],
            data, eps, min_points, borders, kdt_order)

\* ---------------------------------------------------------- Dbscan::predict
\* Itertools::unique: the distinct elements in first-occurrence order.
RECURSIVE unique(_)
unique(s) ==
    IF s = <<>> THEN <<>>
    ELSE LET init == unique(SubSeq(s, 1, Len(s) - 1))
             last == s[Len(s)]
         IN IF last \in Range(init) THEN init ELSE Append(init, last)

\* self.min_points - 1 on usize where the subtraction wraps (overflow checks off).
wrapping_sub(a, b) == (a - b) % (2 ^ UsizeBits)

Noise == [kind |-> "Noise", labels |-> <<>>]
Core(neighbour_clusters) == [kind |-> "Core", labels |-> neighbour_clusters]
Border(neighbour_clusters) == [kind |-> "Border", labels |-> neighbour_clusters]

\* The closure of predict for one row of new_data.
predict_row(self, data, row, kdt_order) ==
    LET neighbours == region_query(row, self.eps, kdtree_init(data), kdt_order, <<>>)
        neighbour_clusters ==
            unique([i \in 1..Len(neighbours) |-> self.clusters[neighbours[i]]])
    IN IF Len(neighbours) >= wrapping_sub(self.min_points, 1)
       THEN Core(neighbour_clusters)
       ELSE IF \E i \in 1..Len(neighbour_clusters) : neighbour_clusters[i] # None
       THEN Border(neighbour_clusters)
       ELSE Noise

\* self.min_points - 1 overflows usize: a panic when the build checks overflow.
predict_panics(self, new_data, overflow_checks) ==
    overflow_checks /\ Len(new_data) > 0 /\ self.min_points - 1 < 0

\* Dbscan::predict when it returns: one result per row of new_data.
predict(self, data, new_data, kdt_order) ==
    [i \in 1..Len(new_data) |-> predict_row(self, data, new_data[i], kdt_order)]

\* ------------------------------------------------------------------ state
VARIABLES
    data,        \* the training matrix, a sequence of rows
    eps,         \* argument of Dbscan::new
    min_points,  \* argument of Dbscan::new
    borders,     \* argument of Dbscan::new
    model,       \* the Dbscan struct returned by new, or NoModel
    seeds,       \* the rows that started the clusters 0, 1, ... of the fit
    new_data,    \* argument of the last predict
    classes,     \* what the last predict returned
    pc           \* "start", "fitted", "predicted" or "panicked"

vars == <<data, eps, min_points, borders, model, seeds, new_data, classes, pc>>

NoModel == [eps |-> 0, min_points |-> 0, clusters |-> <<>>, built |-> FALSE]

KdtOrders == {"kdtree", "scan"}
Coords == 0..MaxCoord

\* All sequences over S of length 1..n.
SeqsUpTo(S, n) == UNION {[1..k -> S] : k \in 1..n}

\* Rows on a line in ascending order, the first at 0, from the gaps between them.
RECURSIVE FromGaps(_)
FromGaps(gaps) ==
    IF gaps = <<>> THEN <<0>>
    ELSE LET init == FromGaps(SubSeq(gaps, 1, Len(gaps) - 1))
         IN Append(init, init[Len(init)] + gaps[Len(gaps)])

ChainData == {FromGaps(g) : g \in [1..(ChainRows - 1) -> 0..MaxGap]}

Start ==
    /\ model = NoModel
    /\ seeds = <<>>
    /\ new_data = <<>>
    /\ classes = <<>>
    /\ pc = "start"

Init ==
    /\ data \in SeqsUpTo(Coords, MaxRows)
    /\ eps \in -1..MaxEps
    /\ min_points \in 0..MaxMinPoints
    /\ borders \in BOOLEAN
    /\ Start

InitChain ==
    /\ data \in ChainData
    /\ eps \in 1..ChainEps
    /\ min_points \in 2..ChainMinPoints
    /\ borders \in BOOLEAN
    /\ Start

\* Dbscan::new(&data, eps, min_points, borders)
New ==
    /\ pc = "start"
    /\ \E kdt_order \in KdtOrders :
         \E fit \in {Fit(data, eps, min_points, borders, kdt_order)} :
            /\ model' = [eps |-> eps, min_points |-> min_points,
                         clusters |-> fit.clusters, built |-> TRUE]
            /\ seeds' = fit.seeds
    /\ pc' = "fitted"
    /\ UNCHANGED <<data, eps, min_points, borders, new_data, classes>>

QueryData == {data} \cup {<<q>> : q \in Coords}

\* model.predict(&data, &new_data)
Predict ==
    /\ pc = "fitted"
    /\ \E nd \in QueryData, kdt_order \in KdtOrders, overflow_checks \in BOOLEAN :
         /\ new_data' = nd
         /\ IF predict_panics(model, nd, overflow_checks)
            THEN /\ classes' = <<>>
                 /\ pc' = "panicked"
            ELSE /\ classes' = predict(model, data, nd, kdt_order)
                 /\ pc' = "predicted"
    /\ UNCHANGED <<data, eps, min_points, borders, model, seeds>>

Next == New \/ Predict

Spec == Init /\ [][Next]_vars

SpecChain == InitChain /\ [][New]_vars

\* ------------------------------------------- the notions the claims use
Rows == 1..Len(data)

\* Row j lies within radius e of row i.
Near(i, j, e) == (data[i] - data[j]) * (data[i] - data[j]) <= e * e

\* The e-neighbourhood of row i, row i included.
Neighbourhood(i, e) == {j \in Rows : Near(i, j, e)}

\* Row i is a core point for radius e and threshold mp.
IsCore(i, e, mp) == Cardinality(Neighbourhood(i, e)) >= mp

Cores(e, mp) == {i \in Rows : IsCore(i, e, mp)}

\* The core points joined to a set of core points by chains of core points.
RECURSIVE Component(_, _, _)
Component(S, e, mp) ==
    LET T == S \cup {j \in Rows : IsCore(j, e, mp) /\ \E i \in S : Near(i, j, e)}
    IN IF T = S THEN S ELSE Component(T, e, mp)

\* Row i is a border point: not core, within e of a core point.
IsBorder(i, e, mp) == ~IsCore(i, e, mp) /\ \E j \in Cores(e, mp) : Near(i, j, e)

\* Row i is noise: neither core nor border.
IsNoise(i, e, mp) == ~IsCore(i, e, mp) /\ ~IsBorder(i, e, mp)

Labelled(clusters) == {i \in DOMAIN clusters : clusters[i] # None}

\* ------------------------------------------------------------------ C1
\* C1: after fit with eps >= 0, in either mode, two core points carry the same
\* cluster id exactly when a chain of core points, each within eps of the
\* next, joins them.
C1_CoreComponents ==
    (model.built /\ eps >= 0) =>
        LET cores == Cores(eps, min_points)
        IN \A i \in cores :
             LET joined == Component({i}, eps, min_points)
             IN \A j \in cores :
                  (model.clusters[i] # None /\ model.clusters[i] = model.clusters[j])
                      <=> j \in joined

\* Border mode, two clusters, and one of them holds two core points that are
\* joined only through a third.
C1_Witness ==
    /\ model.built /\ borders /\ eps >= 0
    /\ \E i \in Cores(eps, min_points) : \E j \in Cores(eps, min_points) :
         \E k \in Cores(eps, min_points) :
           /\ ~Near(i, j, eps)
           /\ model.clusters[i] = model.clusters[j]
           /\ model.clusters[k] # model.clusters[i]

\* ------------------------------------------------------------------ C2
\* C2: without borders, after fit a row is labelled exactly when it is a core
\* point; a non-core row stays None even within eps of a core point.
C2_LabelledIffCore ==
    (model.built /\ ~borders) =>
        \A i \in Rows : model.clusters[i] # None <=> IsCore(i, eps, min_points)

\* A fit without borders that leaves a border point unlabelled beside a core
\* point that was labelled while the cluster grew (not as its seed).
C2_Witness ==
    /\ model.built /\ ~borders /\ eps >= 0
    /\ \E i \in Rows : IsBorder(i, eps, min_points) /\ model.clusters[i] = None
    /\ \E j \in Cores(eps, min_points) :
         model.clusters[j] # None /\ j \notin Range(seeds)

\* ------------------------------------------------------------------ C3
\* C3: with borders, after fit a row is None exactly when it is noise; core
\* and border points are labelled.
C3_NoneIffNoise ==
    (model.built /\ borders) =>
        \A i \in Rows : model.clusters[i] = None <=> IsNoise(i, eps, min_points)

\* A fit with borders holding a labelled border point and an unlabelled noise row.
C3_Witness ==
    /\ model.built /\ borders
    /\ \E i \in Rows : IsBorder(i, eps, min_points) /\ model.clusters[i] # None
    /\ \E i \in Rows : IsNoise(i, eps, min_points) /\ model.clusters[i] = None

\* ------------------------------------------------------------------ C4
\* C4: a row labelled by the fit without borders carries the same cluster id
\* in the fit with borders on the same data, eps and min_points.
C4_BordersKeepLabels ==
    model.built =>
        \A o \in KdtOrders :
            LET with == IF borders THEN model.clusters
                        ELSE Fit(data, eps, min_points, TRUE, o).clusters
                without == IF borders THEN Fit(data, eps, min_points, FALSE, o).clusters
                           ELSE model.clusters
            IN \A i \in Rows : without[i] # None => with[i] = without[i]

\* The fit with borders labels a row the fit without borders leaves None, in
\* its second cluster.
C4_Witness ==
    /\ model.built /\ borders
    /\ \E i \in Rows :
         /\ model.clusters[i] = Some(1)
         /\ Fit(data, eps, min_points, FALSE, "kdtree").clusters[i] = None

\* ------------------------------------------------------------------ C7
\* C7: the ids in the final label vector are exactly 0..k-1 for the k clusters
\* started, the rows that started them are in ascending order, and every
\* cluster keeps its starting row, so no id loses all its members.
C7_DenseIds ==
    model.built =>
        /\ {model.clusters[i] : i \in Labelled(model.clusters)} = 0..(Len(seeds) - 1)
        /\ \A a \in 1..Len(seeds) : \A b \in 1..Len(seeds) :
               a < b => seeds[a] < seeds[b]
        /\ \A a \in 1..Len(seeds) : model.clusters[seeds[a]] = Some(a - 1)

\* A fit with borders in which a border point lies within eps of core points
\* of two clusters, so that the later cluster overwrote its label.
C7_Witness ==
    /\ model.built /\ borders /\ Len(seeds) >= 2
    /\ \E r \in Rows : \E i \in Cores(eps, min_points) : \E j \in Cores(eps, min_points) :
         /\ IsBorder(r, eps, min_points)
         /\ Near(r, i, eps) /\ Near(r, j, eps)
         /\ model.clusters[i] # model.clusters[j]

\* ------------------------------------------------------------------ C9
\* C9 as stated: for eps <= eps2, every row labelled by the eps run is
\* labelled by the eps2 run, and any two rows sharing a cluster id in the eps
\* run share one in the eps2 run.
C9_EpsMonotone ==
    (model.built /\ eps >= 0) =>
        \A eps2 \in eps..ChainEps :
            LET wider == Fit(data, eps2, min_points, borders, "kdtree").clusters
            IN /\ \A i \in Rows : model.clusters[i] # None => wider[i] # None
               /\ \A i \in Rows : \A j \in Rows :
                      (model.clusters[i] # None /\ model.clusters[i] = model.clusters[j])
                          => wider[i] = wider[j]

\* C9 amended: for eps <= eps2, every row labelled by the eps run is labelled
\* by the eps2 run, and any two core points of the eps run sharing a cluster
\* id share one in the eps2 run.
C9_EpsMonotoneCores ==
    (model.built /\ eps >= 0) =>
        \A eps2 \in eps..ChainEps :
            LET wider == Fit(data, eps2, min_points, borders, "kdtree").clusters
                cores == Cores(eps, min_points)
            IN /\ \A i \in Rows : model.clusters[i] # None => wider[i] # None
               /\ \A i \in cores : \A j \in cores :
                      model.clusters[i] = model.clusters[j] => wider[i] = wider[j]

\* A fit with borders whose two clusters are one cluster at a larger eps, and
\* which leaves a row unlabelled that the larger eps labels.
C9_Witness ==
    /\ model.built /\ borders /\ eps >= 0
    /\ \E eps2 \in (eps + 1)..ChainEps :
         LET wider == Fit(data, eps2, min_points, borders, "kdtree").clusters
         IN /\ \E i \in Cores(eps, min_points) : \E j \in Cores(eps, min_points) :
                 model.clusters[i] # model.clusters[j] /\ wider[i] = wider[j]
            /\ \E i \in Rows : model.clusters[i] = None /\ wider[i] # None

\* ------------------------------------------------------------------ C5
\* The training rows within the model's eps of a query row.
QueryNeighbourhood(row) ==
    {j \in Rows : (data[j] - row) * (data[j] - row) <= model.eps * model.eps}

\* C5: predict on the training rows themselves classifies every row that was
\* a core point of the fit as Core or Border, with the row's own label among
\* the labels of the result.
C5_PredictTraining ==
    (pc \in {"predicted", "panicked"} /\ new_data = data /\ eps >= 0) =>
        /\ pc = "predicted"
        /\ \A i \in Cores(eps, min_points) :
               /\ classes[i].kind \in {"Core", "Border"}
               /\ model.clusters[i] \in Range(classes[i].labels)

\* ------------------------------------------------------------------ C6
\* The class the rule of predict gives a query row, min_points - 1 taken as
\* an integer.
RuleKind(row) ==
    IF Cardinality(QueryNeighbourhood(row)) >= model.min_points - 1 THEN "Core"
    ELSE IF \E j \in QueryNeighbourhood(row) : model.clusters[j] # None THEN "Border"
    ELSE "Noise"

\* C6: for every model, min_points = 0 included, predict returns one result
\* per query row in row order: Core when |N| >= min_points - 1, else Border
\* when a neighbour is labelled, else Noise.
C6_PredictRule ==
    (pc \in {"predicted", "panicked"} /\ eps >= 0) =>
        /\ pc = "predicted"
        /\ Len(classes) = Len(new_data)
        /\ \A i \in 1..Len(new_data) : classes[i].kind = RuleKind(new_data[i])

\* ------------------------------------------------------------------ C8
\* C8: the label vector of fit and the results of predict, label lists
\* included, are the same for every order in which the index returns the
\* rows of a radius query.
C8_IndexOrderIndependent ==
    /\ (model.built /\ eps >= 0) =>
           \A o \in KdtOrders :
               model.clusters = Fit(data, eps, min_points, borders, o).clusters
    /\ (pc = "predicted" /\ eps >= 0) =>
           \A o \in KdtOrders : classes = predict(model, data, new_data, o)

\* ----------------------------------------------------------------- C10
\* C10: a fit with a negative eps is rejected: it returns no model.
C10_NegativeEpsRejected == eps < 0 => ~model.built

====
